---- MODULE Spec2Model ----
(***************************************************************************)
(* Model of the k-combination enumerator of src/src/combinations.rs:       *)
(* binomial, the brute-force oracle combinations, and the Combinations     *)
(* struct with its successor, pull, reset, remaining-count, rank and       *)
(* unrank methods.                                                         *)
(*                                                                         *)
(* A Vec<usize> is modelled as a function on 0..len-1, so that indices     *)
(* read as in the source; vectors are built element by element with :> and *)
(* @@, as the source builds them with push.  An Option is a record with a  *)
(* field `some`.                                                           *)
(***************************************************************************)
EXTENDS Integers, Sequences, FiniteSets, TLC

\* Largest universe size n explored; k ranges over 0..MaxN+1 so that k > n occurs.
MaxN == 7
\* How far past C(n,k) the argument of combinatorial_index is explored.
MaxExcess == 2
\* Number of advance calls explored in an exhausted state.
MaxIdle == 2
\* Rows of day12.rs explored: at most MaxLeft conditions and MaxGroups group
\* sizes, each in 1..MaxGroupSize.
MaxLeft == 4
MaxGroups == 2
MaxGroupSize == 3

None == [some |-> FALSE]
Some(v) == [some |-> TRUE, val |-> v]

\* Vec::push on a vector of length len
Push(v, len, e) == v @@ (len :> e)

\* `for i in 0..len { digits.push(i) }`: the vector [0, 1, ..., len-1]
RECURSIVE Iota(_)
Iota(len) == IF len = 0 THEN <<>> ELSE Push(Iota(len - 1), len - 1, len - 1)

\* `digits.resize(len, 0)` on an empty vector
RECURSIVE Zeros(_)
Zeros(len) == IF len = 0 THEN <<>> ELSE Push(Zeros(len - 1), len - 1, 0)

(***************************************************************************)
(* binomial                                                                *)
(***************************************************************************)
RECURSIVE binomial_loop(_, _, _, _)
binomial_loop(m, k, p, i) ==
    IF i < k
    THEN binomial_loop(m + 1, k, ((m + 1) * p) \div (i + 1), i + 1)
    ELSE p

binomial(n, k) ==
    IF n < k
    THEN 0
    ELSE LET m0 == n - k
             m  == IF k < m0 THEN m0 ELSE k
             kk == IF k < m0 THEN k ELSE m0
         IN  binomial_loop(m, kk, 1, 0)

(***************************************************************************)
(* The brute-force oracle                                                  *)
(***************************************************************************)
\* the inner `for e in rhs + 1..n` loop, from e on: the vectors pushed for one src
RECURSIVE extend_one(_, _, _, _)
extend_one(src, e, n, len) ==
    IF e < n
    THEN <<Push(src, len, e)>> \o extend_one(src, e + 1, n, len)
    ELSE <<>>

\* the outer `for src in v.iter()` loop, from index i on
RECURSIVE extend_all(_, _, _, _)
extend_all(v, i, n, len) ==
    IF i > Len(v)
    THEN <<>>
    ELSE extend_one(v[i], v[i][len - 1] + 1, n, len) \o extend_all(v, i + 1, n, len)

RECURSIVE combinations_inner(_, _, _, _)
combinations_inner(v, n, k, len) ==
    IF len < k
    THEN combinations_inner(extend_all(v, 1, n, len), n, k, len + 1)
    ELSE v

\* `for i in 0..last { v.push(vec![i]) }`, from i on
RECURSIVE singletons(_, _)
singletons(i, last) ==
    IF i < last
    THEN <<Push(<<>>, 0, i)>> \o singletons(i + 1, last)
    ELSE <<>>

\* requires n >= k (assert!)
combinations(n, k) ==
    IF k # 0
    THEN combinations_inner(singletons(0, n - k + 1), n, k, 1)
    ELSE << <<>> >>

(***************************************************************************)
(* struct Combinations { n, k, digits, initial }                           *)
(***************************************************************************)
\* new whose push loop starts the digits at 1
new_from_one(n, k) ==
    LET initial == k <= n
    IN  [n |-> n, k |-> k,
         digits |-> IF initial THEN [i \in DOMAIN Iota(k) |-> Iota(k)[i] + 1] ELSE <<>>,
         initial |-> initial]

new(n, k) ==
    LET initial == k <= n
    IN  [n |-> n, k |-> k,
         digits |-> IF initial THEN Iota(k) ELSE <<>>,
         initial |-> initial]

\* is_done that takes an enumerator without digits for one that is not done
is_done_no_domain_test(s) ==
    \/ (s.k = 0 /\ ~s.initial)
    \/ (s.k # 0 /\ DOMAIN s.digits # {} /\ s.digits[0] > s.n - s.k)

\* is_done that reports every enumerator with k = 0 as done
is_done_empty_is_done(s) ==
    \/ s.k > s.n
    \/ s.k = 0
    \/ (s.k # 0 /\ s.digits[0] > s.n - s.k)

\* is_done with the last test off by one
is_done_early(s) ==
    \/ s.k > s.n
    \/ (s.k = 0 /\ ~s.initial)
    \/ (s.k # 0 /\ s.digits[0] >= s.n - s.k)

is_done(s) ==
    \/ s.k > s.n
    \/ (s.k = 0 /\ ~s.initial)
    \/ (s.k # 0 /\ s.digits[0] > s.n - s.k)

\* while self.digits[j] == len + j && j != 0 { j -= 1; self.digits[j] += 1; }
RECURSIVE carry(_, _, _)
carry(d, j, len) ==
    IF d[j] = len + j /\ j # 0
    THEN carry([d EXCEPT ![j - 1] = @ + 1], j - 1, len)
    ELSE <<d, j>>

\* refill that leaves the tail as the carry left it
refill_stale(d, j, k) == d

\* while j < self.k { self.digits[j] = self.digits[j - 1] + 1; j += 1; }
RECURSIVE refill(_, _, _)
refill(d, j, k) ==
    IF j < k
    THEN refill([d EXCEPT ![j] = d[j - 1] + 1], j + 1, k)
    ELSE d

\* next_combination_mut whose early return tests the domain only
next_combination_mut_unguarded(s) ==
    LET s1 == [s EXCEPT !.initial = FALSE]
    IN  IF s1.k > s1.n \/ s1.k = 0
        THEN s1
        ELSE LET j   == s1.k - 1
                 len == s1.n - s1.k + 1
                 c   == carry([s1.digits EXCEPT ![j] = @ + 1], j, len)
             IN  [s1 EXCEPT !.digits = refill(c[1], c[2] + 1, s1.k)]

next_combination_mut(s) ==
    LET s1 == [s EXCEPT !.initial = FALSE]
    IN  IF is_done(s1)
        THEN s1
        ELSE LET j   == s1.k - 1
                 len == s1.n - s1.k + 1
                 c   == carry([s1.digits EXCEPT ![j] = @ + 1], j, len)
             IN  [s1 EXCEPT !.digits = refill(c[1], c[2] + 1, s1.k)]

\* next_combination whose first call returns the digits without advancing
next_combination_repeat_first(s) ==
    IF is_done(s)
    THEN <<s, None>>
    ELSE IF s.initial
    THEN <<[s EXCEPT !.initial = FALSE], Some(s.digits)>>
    ELSE <<next_combination_mut(s), Some(s.digits)>>

\* the pair <<state after the call, returned Option>>
next_combination(s) ==
    IF is_done(s)
    THEN <<s, None>>
    ELSE <<next_combination_mut(s), Some(s.digits)>>

\* reset that restores the digits only
reset_keeps_flag(s) ==
    [s EXCEPT !.digits = Iota(Cardinality(DOMAIN s.digits))]

reset(s) ==
    [s EXCEPT !.initial = s.k <= s.n,
              !.digits = Iota(Cardinality(DOMAIN s.digits))]

(***************************************************************************)
(* count_remaining, linear_index (rank), combinatorial_index (unrank)      *)
(***************************************************************************)
\* count_remaining_loop that keeps d_i = d_i_1 after adding a term
RECURSIVE count_remaining_loop_no_gap(_, _, _, _, _)
count_remaining_loop_no_gap(s, acc, j, i, d_i) ==
    IF i < s.k - 1
    THEN LET d_i_1 == s.digits[j - 1]
         IN  IF d_i_1 # d_i
             THEN count_remaining_loop_no_gap(s, acc + binomial(s.n - d_i, i + 1),
                                              j - 1, i + 1, d_i_1)
             ELSE count_remaining_loop_no_gap(s, acc, j - 1, i + 1, d_i_1)
    ELSE acc + binomial(s.n - d_i, s.k)

\* the `while i < last` loop of count_remaining and its final expression
RECURSIVE count_remaining_loop(_, _, _, _, _)
count_remaining_loop(s, acc, j, i, d_i) ==
    IF i < s.k - 1
    THEN LET d_i_1 == s.digits[j - 1]
         IN  IF d_i_1 # d_i
             THEN count_remaining_loop(s, acc + binomial(s.n - d_i, i + 1),
                                       j - 1, i + 1, d_i_1 + 1)
             ELSE count_remaining_loop(s, acc, j - 1, i + 1, d_i_1)
    ELSE acc + binomial(s.n - d_i, s.k)

\* count_remaining that leaves the current combination out when k = 1
count_remaining_excl(s) ==
    IF s.k = 0
    THEN (IF s.initial THEN 1 ELSE 0)
    ELSE IF s.k > s.n
    THEN 0
    ELSE IF s.k = 1
    THEN (s.n - 1) - s.digits[0]
    ELSE count_remaining_loop(s, 0, s.k - 1, 0, s.digits[s.k - 1])

count_remaining(s) ==
    IF s.k = 0
    THEN (IF s.initial THEN 1 ELSE 0)
    ELSE IF s.k > s.n
    THEN 0
    ELSE IF s.k = 1
    THEN s.n - s.digits[0]
    ELSE count_remaining_loop(s, 0, s.k - 1, 0, s.digits[s.k - 1])

\* linear_index_loop with n in place of n_minus_1
RECURSIVE linear_index_loop_off_by_one(_, _, _, _, _)
linear_index_loop_off_by_one(s, acc, j, i, d_i) ==
    IF i < s.k - 1
    THEN LET d_i_1 == s.digits[j - 1]
         IN  IF d_i_1 # d_i
             THEN linear_index_loop_off_by_one(s,
                      acc + (binomial(s.n - d_i_1, i + 1)
                             - binomial(s.n - d_i, i + 1)),
                      j - 1, i + 1, d_i_1)
             ELSE linear_index_loop_off_by_one(s, acc, j - 1, i + 1, d_i_1)
    ELSE acc + (binomial(s.n, s.k) - binomial(s.n - s.digits[0], s.k))

\* the `while i < last` loop of linear_index and its final expression
RECURSIVE linear_index_loop(_, _, _, _, _)
linear_index_loop(s, acc, j, i, d_i) ==
    IF i < s.k - 1
    THEN LET d_i_1 == s.digits[j - 1]
         IN  IF d_i_1 # d_i
             THEN linear_index_loop(s,
                      acc + (binomial((s.n - 1) - d_i_1, i + 1)
                             - binomial(s.n - d_i, i + 1)),
                      j - 1, i + 1, d_i_1)
             ELSE linear_index_loop(s, acc, j - 1, i + 1, d_i_1)
    ELSE acc + (binomial(s.n, s.k) - binomial(s.n - s.digits[0], s.k))

\* linear_index without the exhaustion test on digits[0]
linear_index_unguarded(s) ==
    IF s.k = 0
    THEN (IF s.initial THEN Some(0) ELSE None)
    ELSE IF s.k > s.n
    THEN None
    ELSE IF s.k = 1
    THEN Some(s.digits[0])
    ELSE Some(linear_index_loop(s, 0, s.k - 1, 0, s.digits[s.k - 1]))

linear_index(s) ==
    IF s.k = 0
    THEN (IF s.initial THEN Some(0) ELSE None)
    ELSE IF s.k > s.n \/ s.digits[0] > s.n - s.k
    THEN None
    ELSE IF s.k = 1
    THEN Some(s.digits[0])
    ELSE Some(linear_index_loop(s, 0, s.k - 1, 0, s.digits[s.k - 1]))

\* the call aborts: `n_minus_1 - d_i` underflows, a panic in a build with
\* overflow detection (in a build without it the difference wraps instead)
Abort == [some |-> FALSE, abort |-> TRUE]

\* combinatorial_index_search with `l > b` as the loop test
RECURSIVE combinatorial_index_search_strict(_, _, _, _)
combinatorial_index_search_strict(n_minus_1, i, l, d_i) ==
    IF d_i > n_minus_1
    THEN <<l, d_i, FALSE>>
    ELSE LET b == binomial(n_minus_1 - d_i, i)
         IN  IF l > b
             THEN combinatorial_index_search_strict(n_minus_1, i, l - b, d_i + 1)
             ELSE <<l, d_i, TRUE>>

\* the inner `while l >= b` loop: <<l, d_i, completed>>
RECURSIVE combinatorial_index_search(_, _, _, _)
combinatorial_index_search(n_minus_1, i, l, d_i) ==
    IF d_i > n_minus_1
    THEN <<l, d_i, FALSE>>
    ELSE LET b == binomial(n_minus_1 - d_i, i)
         IN  IF l >= b
             THEN combinatorial_index_search(n_minus_1, i, l - b, d_i + 1)
             ELSE <<l, d_i, TRUE>>

\* the outer `while i != 0` loop and the final `digits[self.k - 1] += l`
RECURSIVE combinatorial_index_loop(_, _, _, _, _)
combinatorial_index_loop(s, digits, l, j, i) ==
    IF i # 0
    THEN LET r == combinatorial_index_search(s.n - 1, i, l, digits[j])
         IN  IF ~r[3]
             THEN Abort
             ELSE combinatorial_index_loop(s,
                      [digits EXCEPT ![j] = r[2], ![j + 1] = r[2] + 1],
                      r[1], j + 1, i - 1)
    ELSE Some([digits EXCEPT ![s.k - 1] = @ + l])

combinatorial_index(s, l) ==
    IF s.k = 0
    THEN (IF s.initial THEN Some(<<>>) ELSE None)
    ELSE IF s.k > s.n
    THEN Some(<<>>)
    ELSE combinatorial_index_loop(s, Zeros(s.k), l, 0, s.k - 1)

(***************************************************************************)
(* binomial in u64: the arithmetic of `p = m * p / i` at its real width.   *)
(* A u64 is four 16-bit limbs, least significant first.                    *)
(***************************************************************************)
\* `/// Works for n <= 62 and any k.`
MaxBinomN == 62

Limb == 2^16

\* the u64 of a small non-negative integer literal or counter
u64(x) == <<x % Limb, (x \div Limb) % Limb, 0, 0>>

\* `m * p` for a u64 p and a counter m: the low 64 bits and what was lost above
u64_mul(m, p) ==
    LET t1 == m * p[1]
        t2 == m * p[2] + (t1 \div Limb)
        t3 == m * p[3] + (t2 \div Limb)
        t4 == m * p[4] + (t3 \div Limb)
    IN  [val |-> <<t1 % Limb, t2 % Limb, t3 % Limb, t4 % Limb>>,
         lost |-> t4 \div Limb]

\* `x / i` for a u64 x and a counter i >= 1 (truncating)
u64_div(x, i) ==
    LET r4 == x[4]
        r3 == (r4 % i) * Limb + x[3]
        r2 == (r3 % i) * Limb + x[2]
        r1 == (r2 % i) * Limb + x[1]
    IN  <<r1 \div i, r2 \div i, r3 \div i, r4 \div i>>

\* the remainder of `x / i`
u64_rem(x, i) ==
    LET r4 == x[4]
        r3 == (r4 % i) * Limb + x[3]
        r2 == (r3 % i) * Limb + x[2]
        r1 == (r2 % i) * Limb + x[1]
    IN  r1 % i

\* a <= b for two u64
u64_le(a, b) ==
    \/ a = b
    \/ \E h \in 1..4 : a[h] < b[h] /\ \A g \in (h + 1)..4 : a[g] = b[g]

\* the larger of two u64
u64_max(a, b) == IF u64_le(a, b) THEN b ELSE a

\* the state of one call of binomial before its first statement: its
\* arguments, locals and position, and as history whether a product has lost
\* bits (wrapped), whether every division so far left no remainder (exact)
\* and the largest product formed so far (peak)
binomial_entry(n, k) ==
    [pc |-> "entry", n |-> n, k |-> k, m |-> 0, kk |-> 0, i |-> 0,
     p |-> u64(0), wrapped |-> FALSE, exact |-> TRUE, peak |-> u64(0),
     ret |-> u64(0)]

\* `if n < k { 0 } else { let m = n - k; let (mut m, k) = ...; p = 1; i = 0; ...`
binomial_enter(c) ==
    IF c.n < c.k
    THEN [c EXCEPT !.pc = "done", !.ret = u64(0)]
    ELSE LET m0 == c.n - c.k
         IN  [c EXCEPT !.pc = "loop",
                       !.m  = IF c.k < m0 THEN m0 ELSE c.k,
                       !.kk = IF c.k < m0 THEN c.k ELSE m0,
                       !.p  = u64(1),
                       !.i  = 0]

\* the loop body with `p = m * (p / i)`
binomial_step_divide_first(c) ==
    LET i    == c.i + 1
        m    == c.m + 1
        prod == u64_mul(m, u64_div(c.p, i))
    IN  [c EXCEPT !.i = i, !.m = m, !.p = prod.val,
                  !.wrapped = c.wrapped \/ prod.lost # 0,
                  !.exact = c.exact /\ u64_rem(c.p, i) = 0,
                  !.peak = u64_max(c.peak, prod.val)]

\* the loop body with `p = m * p`
binomial_step_no_division(c) ==
    LET i    == c.i + 1
        m    == c.m + 1
        prod == u64_mul(m, c.p)
    IN  [c EXCEPT !.i = i, !.m = m, !.p = prod.val,
                  !.wrapped = c.wrapped \/ prod.lost # 0,
                  !.peak = u64_max(c.peak, prod.val)]

\* the loop body `i += 1; m += 1; p = m * p / i;`
binomial_step(c) ==
    LET i    == c.i + 1
        m    == c.m + 1
        prod == u64_mul(m, c.p)
    IN  [c EXCEPT !.i = i, !.m = m, !.p = u64_div(prod.val, i),
                  !.wrapped = c.wrapped \/ prod.lost # 0,
                  !.exact = c.exact /\ u64_rem(prod.val, i) = 0,
                  !.peak = u64_max(c.peak, prod.val)]

\* leaving the loop: the value of the else branch is p
binomial_return(c) == [c EXCEPT !.pc = "done", !.ret = c.p]

(***************************************************************************)
(* day12.rs: its own Combinations, Row::is_feasible and                    *)
(* RowAnalyzer::count_arrangements.  Conditions are written as in the      *)
(* puzzle input; left and right are sequences (first index 1), unknowns    *)
(* holds the indices of the source (first index 0).                        *)
(***************************************************************************)
Damaged == "#"
Operational == "."
Unknown == "?"
Condition == {Damaged, Operational, Unknown}

\* `assert!(k <= n)`, then inner = [0, ..., k-1] and initial: true
day12_new(n, k) == [n |-> n, k |-> k, inner |-> Iota(k), initial |-> TRUE]

\* `self.k == 0 || self.n == 0 || self.inner[0] > self.n - self.k`, the
\* operands evaluated from the left as far as needed
day12_is_done(s) ==
    IF s.k = 0 THEN TRUE
    ELSE IF s.n = 0 THEN TRUE
    ELSE s.inner[0] > s.n - s.k

\* while self.inner[j] == len + j && j != 0 { j -= 1; self.inner[j] += 1; }
RECURSIVE day12_carry(_, _, _)
day12_carry(d, j, len) ==
    IF d[j] = len + j /\ j # 0
    THEN day12_carry([d EXCEPT ![j - 1] = @ + 1], j - 1, len)
    ELSE <<d, j>>

\* while j < self.k { self.inner[j] = self.inner[j - 1] + 1; j += 1; }
RECURSIVE day12_refill(_, _, _)
day12_refill(d, j, k) ==
    IF j < k
    THEN day12_refill([d EXCEPT ![j] = d[j - 1] + 1], j + 1, k)
    ELSE d

day12_next_combination_mut(s) ==
    IF day12_is_done(s)
    THEN s
    ELSE LET j   == s.k - 1
             len == s.n - s.k + 1
             c   == day12_carry([s.inner EXCEPT ![j] = @ + 1], j, len)
         IN  [s EXCEPT !.inner = day12_refill(c[1], c[2] + 1, s.k)]

\* next_combination that returns the digits it held before advancing
day12_next_combination_stale(s) ==
    IF s.initial
    THEN <<[s EXCEPT !.initial = FALSE], Some(s.inner)>>
    ELSE IF day12_is_done(s)
    THEN <<s, None>>
    ELSE LET s1 == day12_next_combination_mut(s)
         IN  IF day12_is_done(s1) THEN <<s1, None>> ELSE <<s1, Some(s.inner)>>

\* the pair <<state after the call, returned Option>>
day12_next_combination(s) ==
    IF s.initial
    THEN <<[s EXCEPT !.initial = FALSE], Some(s.inner)>>
    ELSE IF day12_is_done(s)
    THEN <<s, None>>
    ELSE LET s1 == day12_next_combination_mut(s)
         IN  IF day12_is_done(s1) THEN <<s1, None>> ELSE <<s1, Some(s1.inner)>>

\* the inner `while let` of is_feasible: from index r on, the first index that
\* is not Damaged (Len(left) + 1 if there is none)
RECURSIVE run_end(_, _)
run_end(left, r) ==
    IF r <= Len(left) /\ left[r] = Damaged THEN run_end(left, r + 1) ELSE r

\* the outer `while let` of is_feasible, at index pos with g sizes consumed
RECURSIVE is_feasible_from(_, _, _, _)
is_feasible_from(left, right, pos, g) ==
    IF pos > Len(left)
    THEN TRUE
    ELSE IF left[pos] = Damaged
    THEN LET r == run_end(left, pos + 1)
         IN  IF r <= Len(left) /\ left[r] = Unknown
             THEN FALSE
             ELSE IF g < Len(right)
             THEN (IF r - pos # right[g + 1]
                   THEN FALSE
                   ELSE is_feasible_from(left, right, r + 1, g + 1))
             ELSE FALSE
    ELSE IF left[pos] = Operational
    THEN is_feasible_from(left, right, pos + 1, g)
    ELSE FALSE

is_feasible(row) == is_feasible_from(row.left, row.right, 1, 0)

\* the indices i (from 0) with left[i] Unknown, in increasing order
RECURSIVE unknowns_of(_, _)
unknowns_of(left, len) ==
    IF len = 0
    THEN <<>>
    ELSE IF left[len] = Unknown
    THEN Append(unknowns_of(left, len - 1), len - 1)
    ELSE unknowns_of(left, len - 1)

RECURSIVE sum_of(_, _)
sum_of(right, len) == IF len = 0 THEN 0 ELSE sum_of(right, len - 1) + right[len]

\* `n_damaged - row.left.iter().filter(|cond| cond.is_damaged()).count()`
k_damaged_of(row) ==
    sum_of(row.right, Len(row.right))
        - Cardinality({i \in 1..Len(row.left) : row.left[i] = Damaged})

\* RowAnalyzer::from(row), then count_arrangements up to its while loop; evals
\* records, as history, the digits at each evaluation of is_feasible
count_arrangements_entry(row) ==
    LET unknowns == unknowns_of(row.left, Len(row.left))
        k_damaged == k_damaged_of(row)
    IN  [row |-> row, unknowns |-> unknowns, k_damaged |-> k_damaged,
         comb |-> day12_new(Len(unknowns), k_damaged),
         sum |-> 0, evals |-> <<>>, pc |-> "loop", ret |-> 0]

\* the Unknown slots set to Operational, then those picked by comb to Damaged
marked(left, unknowns, inner) ==
    LET picked == {unknowns[inner[h] + 1] : h \in DOMAIN inner}
        open   == {unknowns[h] : h \in 1..Len(unknowns)}
    IN  [i \in 1..Len(left) |->
            IF (i - 1) \in picked THEN Damaged
            ELSE IF (i - 1) \in open THEN Operational
            ELSE left[i]]

\* the body of `while !comb.is_done()`
count_arrangements_step(j) ==
    LET left == marked(j.row.left, j.unknowns, j.comb.inner)
    IN  [j EXCEPT !.row.left = left,
                  !.sum = j.sum + (IF is_feasible([j.row EXCEPT !.left = left])
                                   THEN 1 ELSE 0),
                  !.evals = Append(j.evals, j.comb.inner),
                  !.comb = day12_next_combination_mut(j.comb)]

\* after the loop: the Unknown slots restored, `if sum == 0 { 1 } else { sum }`
count_arrangements_return(j) ==
    LET open == {j.unknowns[h] : h \in 1..Len(j.unknowns)}
    IN  [j EXCEPT !.row.left = [i \in 1..Len(j.row.left) |->
                                   IF (i - 1) \in open THEN Unknown ELSE j.row.left[i]],
                  !.ret = IF j.sum = 0 THEN 1 ELSE j.sum,
                  !.pc = "done"]

\* no call of count_arrangements, no twin enumerator
NoJob == [pc |-> "none"]
NoTwin == [comb |-> day12_new(0, 0), ret |-> None]

(***************************************************************************)
(* The enumerator and its caller                                           *)
(***************************************************************************)
VARIABLES
    self,    \* the Combinations value
    pre,     \* its value before the last call
    op,      \* the last call: "new", "advance", "next" or "reset"
    ret,     \* what the last call to next() returned
    cnt,     \* calls of next_combination_mut since new/reset
    idle,    \* those of them made directly in an exhausted state
    last,    \* the last non-absent result of next() since new/reset
    pure,    \* no direct call of next_combination_mut since new/reset
    pulled,  \* while pure: the non-absent results of next() since new/reset
    reused,  \* reset() has been called on this value
    call,    \* a call of binomial in progress: its arguments, locals and position
    job,     \* a call of RowAnalyzer::count_arrangements (day12.rs) in progress
    twin     \* a day12.rs Combinations pulled in step with self, and its last result

caller == <<self, pre, op, ret, cnt, idle, last, pure, pulled, reused>>

vars == <<self, pre, op, ret, cnt, idle, last, pure, pulled, reused, call, job, twin>>

Init ==
    /\ \E n \in 0..MaxN, k \in 0..(MaxN + 1) : self = new(n, k)
    /\ pre = self
    /\ op = "new"
    /\ ret = None
    /\ cnt = 0
    /\ idle = 0
    /\ last = None
    /\ pure = TRUE
    /\ pulled = <<>>
    /\ reused = FALSE
    /\ call = binomial_entry(0, 0)
    /\ job = NoJob
    /\ twin = NoTwin

Advance ==
    /\ is_done(self) => idle < MaxIdle
    /\ self' = next_combination_mut(self)
    /\ pre' = self
    /\ op' = "advance"
    /\ cnt' = cnt + 1
    /\ idle' = IF is_done(self) THEN idle + 1 ELSE idle
    /\ pure' = FALSE
    /\ pulled' = <<>>
    /\ UNCHANGED <<ret, last, reused, call, job, twin>>

Pull ==
    LET r == next_combination(self)
    IN  /\ self' = r[1]
        /\ pre' = self
        /\ op' = "next"
        /\ ret' = r[2]
        /\ cnt' = IF is_done(self) THEN cnt ELSE cnt + 1
        /\ last' = IF r[2].some THEN r[2] ELSE last
        /\ pulled' = IF pure /\ r[2].some THEN Append(pulled, r[2].val) ELSE pulled
        /\ UNCHANGED <<idle, pure, reused, call, job, twin>>

Reset ==
    /\ self' = reset(self)
    /\ pre' = self
    /\ op' = "reset"
    /\ ret' = None
    /\ cnt' = 0
    /\ idle' = 0
    /\ last' = None
    /\ pure' = TRUE
    /\ pulled' = <<>>
    /\ reused' = TRUE
    /\ UNCHANGED <<call, job, twin>>

Next == Advance \/ Pull \/ Reset

Spec == Init /\ [][Next]_vars

(***************************************************************************)
(* One call of binomial, statement by statement                            *)
(***************************************************************************)
InitBinomial ==
    /\ \E n \in 0..MaxBinomN, k \in 0..(MaxBinomN + 1) : call = binomial_entry(n, k)
    /\ self = new(0, 0)
    /\ pre = self
    /\ op = "new"
    /\ ret = None
    /\ cnt = 0
    /\ idle = 0
    /\ last = None
    /\ pure = TRUE
    /\ pulled = <<>>
    /\ reused = FALSE
    /\ job = NoJob
    /\ twin = NoTwin

BinomialEnter ==
    /\ call.pc = "entry"
    /\ call' = binomial_enter(call)
    /\ UNCHANGED <<caller, job, twin>>

BinomialStep ==
    /\ call.pc = "loop"
    /\ call.i < call.kk
    /\ call' = binomial_step(call)
    /\ UNCHANGED <<caller, job, twin>>

BinomialReturn ==
    /\ call.pc = "loop"
    /\ ~(call.i < call.kk)
    /\ call' = binomial_return(call)
    /\ UNCHANGED <<caller, job, twin>>

NextBinomial == BinomialEnter \/ BinomialStep \/ BinomialReturn

SpecBinomial == InitBinomial /\ [][NextBinomial]_vars

(***************************************************************************)
(* An enumerator seeded at a rank and advanced from there: the caller      *)
(* stores the result of combinatorial_index in the digits (a pub(crate)    *)
(* field) and then calls next_combination_mut.                             *)
(* Here cnt is the rank of the seed plus the advances made since, and      *)
(* pulled the digits held before each of these advances.                   *)
(***************************************************************************)
Seed ==
    /\ op = "new"
    /\ 1 <= self.k /\ self.k <= self.n
    /\ \E l \in 0..(binomial(self.n, self.k) - 1) :
           LET u == combinatorial_index(self, l)
           IN  /\ u.some
               /\ self' = [self EXCEPT !.digits = u.val]
               /\ cnt' = l
    /\ pre' = self
    /\ op' = "seed"
    /\ pulled' = <<>>
    /\ UNCHANGED <<ret, idle, last, pure, reused, call, job, twin>>

Walk ==
    /\ op \in {"seed", "walk"}
    /\ ~is_done(self)
    /\ self' = next_combination_mut(self)
    /\ pre' = self
    /\ op' = "walk"
    /\ cnt' = cnt + 1
    /\ pulled' = Append(pulled, self.digits)
    /\ UNCHANGED <<ret, idle, last, pure, reused, call, job, twin>>

NextSeeded == Seed \/ Walk

SpecSeeded == Init /\ [][NextSeeded]_vars

(***************************************************************************)
(* A caller that only calls next_combination_mut, again and again          *)
(***************************************************************************)
SpecAdvancing == Init /\ [][Advance]_vars /\ WF_vars(Advance)

(***************************************************************************)
(* One call of RowAnalyzer::count_arrangements, iteration by iteration,    *)
(* on a row with 0 <= k_damaged <= n_unknown                               *)
(***************************************************************************)
Rows ==
    {[left |-> l, right |-> r] :
        l \in UNION {[1..m -> Condition] : m \in 0..MaxLeft},
        r \in UNION {[1..m -> 1..MaxGroupSize] : m \in 0..MaxGroups}}

InitArrangements ==
    /\ \E row \in Rows :
           /\ k_damaged_of(row) >= 0
           /\ k_damaged_of(row) <= Len(unknowns_of(row.left, Len(row.left)))
           /\ job = count_arrangements_entry(row)
    /\ self = new(0, 0)
    /\ pre = self
    /\ op = "new"
    /\ ret = None
    /\ cnt = 0
    /\ idle = 0
    /\ last = None
    /\ pure = TRUE
    /\ pulled = <<>>
    /\ reused = FALSE
    /\ call = binomial_entry(0, 0)
    /\ twin = NoTwin

ArrangementsStep ==
    /\ job.pc = "loop"
    /\ ~day12_is_done(job.comb)
    /\ job' = count_arrangements_step(job)
    /\ UNCHANGED <<caller, call, twin>>

ArrangementsReturn ==
    /\ job.pc = "loop"
    /\ day12_is_done(job.comb)
    /\ job' = count_arrangements_return(job)
    /\ UNCHANGED <<caller, call, twin>>

NextArrangements == ArrangementsStep \/ ArrangementsReturn

SpecArrangements == InitArrangements /\ [][NextArrangements]_vars

(***************************************************************************)
(* The two Combinations, of combinations.rs and of day12.rs, constructed   *)
(* with the same (n, k), k <= n, and pulled with next() in step            *)
(***************************************************************************)
InitTwin ==
    /\ \E n \in 0..MaxN, k \in 0..MaxN :
           /\ k <= n
           /\ self = new(n, k)
           /\ twin = [comb |-> day12_new(n, k), ret |-> None]
    /\ pre = self
    /\ op = "new"
    /\ ret = None
    /\ cnt = 0
    /\ idle = 0
    /\ last = None
    /\ pure = TRUE
    /\ pulled = <<>>
    /\ reused = FALSE
    /\ call = binomial_entry(0, 0)
    /\ job = NoJob

PullBoth ==
    LET r == next_combination(self)
        q == day12_next_combination(twin.comb)
    IN  /\ is_done(self) => idle < MaxIdle
        /\ self' = r[1]
        /\ pre' = self
        /\ op' = "next"
        /\ ret' = r[2]
        /\ cnt' = IF is_done(self) THEN cnt ELSE cnt + 1
        /\ idle' = IF is_done(self) THEN idle + 1 ELSE idle
        /\ last' = IF r[2].some THEN r[2] ELSE last
        /\ pulled' = IF pure /\ r[2].some THEN Append(pulled, r[2].val) ELSE pulled
        /\ twin' = [comb |-> q[1], ret |-> q[2]]
        /\ UNCHANGED <<pure, reused, call, job>>

SpecTwin == InitTwin /\ [][PullBoth]_vars

(***************************************************************************)
(* Reference notions used to state the properties                          *)
(***************************************************************************)
\* C(n,k) by Pascal's rule
RECURSIVE Choose(_, _)
Choose(n, k) ==
    IF k = 0 THEN 1
    ELSE IF n = 0 THEN 0
    ELSE Choose(n - 1, k - 1) + Choose(n - 1, k)

\* strict lexicographic order on two vectors of length len
LexLess(a, b, len) ==
    \E i \in 0..(len - 1) :
        /\ a[i] < b[i]
        /\ \A h \in 0..(i - 1) : a[h] = b[h]

\* a strictly increasing vector of length k over [0, n)
IsCombination(d, n, k) ==
    /\ DOMAIN d = 0..(k - 1)
    /\ \A i \in 0..(k - 1) : d[i] \in 0..(n - 1)
    /\ \A i \in 0..(k - 2) : d[i] < d[i + 1]

Range(seq) == {seq[i] : i \in DOMAIN seq}

\* a fresh or reset enumerator has been drained by next() alone
Drained == pure /\ self.k <= self.n /\ is_done(self)

(***************************************************************************)
(* Properties                                                              *)
(***************************************************************************)
\* C1: for 0 <= k <= n, draining a fresh enumerator with next() yields exactly
\* C(n,k) sequences, pairwise distinct, each a strictly increasing vector of
\* length k over [0, n): the same set as the oracle combinations(n, k).
C1_DrainYieldsAllCombinations ==
    Drained =>
        /\ Len(pulled) = Choose(self.n, self.k)
        /\ \A i, j \in 1..Len(pulled) : i # j => pulled[i] # pulled[j]
        /\ \A i \in 1..Len(pulled) : IsCombination(pulled[i], self.n, self.k)
        /\ Range(pulled) = Range(combinations(self.n, self.k))

C1_Witness ==
    /\ Drained
    /\ op = "next" /\ ret = None
    /\ self.k >= 2 /\ self.k < self.n
    /\ Len(pulled) >= 20

\* C2: two consecutive non-absent results of next() on the same enumerator,
\* with no reset in between, are strictly increasing in lexicographic order.
C2_PullsLexIncreasing ==
    [][(op' = "next" /\ ret'.some /\ last.some)
          => LexLess(last.val, ret'.val, self.k)]_vars

C2_Witness ==
    /\ op = "next" /\ ret.some
    /\ cnt >= 3
    /\ self.k >= 2
    /\ ret.val[0] > 0

\* C3: for 0 <= k <= n and i < C(n,k), after exactly i calls of
\* next_combination_mut on a fresh enumerator, linear_index() returns i.
C3_RankCountsAdvances ==
    (self.k <= self.n /\ cnt < Choose(self.n, self.k))
        => linear_index(self) = Some(cnt)

C3_Witness ==
    /\ self.k >= 2 /\ self.k < self.n
    /\ cnt >= 4 /\ cnt < Choose(self.n, self.k)
    /\ self.digits[0] > 0
    /\ linear_index(self) = Some(cnt)

\* C4: for 0 <= k <= n and i < C(n,k), combinatorial_index(i), called on the
\* enumerator as it is after i advances, returns the digits it then holds; hence
\* unrank(rank(c)) = c for every combination c of the forward enumeration.
C4_UnrankMatchesEnumeration ==
    (self.k <= self.n /\ cnt < Choose(self.n, self.k))
        => /\ combinatorial_index(self, cnt) = Some(self.digits)
           /\ linear_index(self).some
           /\ combinatorial_index(self, linear_index(self).val) = Some(self.digits)

C4_Witness ==
    /\ self.k >= 2 /\ self.k < self.n
    /\ cnt >= 4 /\ cnt < Choose(self.n, self.k)
    /\ self.digits[0] > 0
    /\ combinatorial_index(self, cnt) = Some(self.digits)

\* C5: for 0 <= k <= n and every l < C(n,k), combinatorial_index(l) returns a
\* non-absent digit sequence d, and linear_index() on an enumerator of the same
\* (n, k) whose digits are d returns l.
C5_RankOfUnrank ==
    self.k <= self.n =>
        \A l \in 0..(Choose(self.n, self.k) - 1) :
            LET u == combinatorial_index(self, l)
            IN  /\ u.some
                /\ linear_index([self EXCEPT !.digits = u.val]) = Some(l)

\* C5, where the code does satisfy it: with k >= 1, or with k = 0 while the
\* empty combination has not been consumed.
C5_RankOfUnrankUnconsumed ==
    (self.k <= self.n /\ (self.k # 0 \/ self.initial)) =>
        \A l \in 0..(Choose(self.n, self.k) - 1) :
            LET u == combinatorial_index(self, l)
            IN  /\ u.some
                /\ linear_index([self EXCEPT !.digits = u.val]) = Some(l)

\* C6: every call of next_combination_mut made in a non-exhausted state lowers
\* count_remaining() by exactly 1, and count_remaining() is 0 exactly when
\* is_done() holds.
C6_RemainingStepsDown ==
    /\ (op \in {"advance", "next"} /\ ~is_done(pre))
           => count_remaining(self) = count_remaining(pre) - 1
    /\ (count_remaining(self) = 0) <=> is_done(self)

C6_Witness ==
    /\ op = "advance" /\ ~is_done(pre)
    /\ self.k >= 2 /\ self.k < self.n
    /\ cnt >= 3
    /\ pre.digits[0] # self.digits[0]
    /\ count_remaining(self) = count_remaining(pre) - 1

\* C7: in every non-exhausted state with 0 <= k <= n, count_remaining() is
\* C(n,k) minus the rank: the current combination counts as remaining.
C7_RemainingIsTotalMinusRank ==
    (self.k <= self.n /\ ~is_done(self))
        => /\ linear_index(self).some
           /\ count_remaining(self) = Choose(self.n, self.k) - linear_index(self).val

C7_Witness ==
    /\ self.k <= self.n /\ ~is_done(self)
    /\ self.k >= 2
    /\ linear_index(self).some
    /\ linear_index(self).val >= 4
    /\ count_remaining(self) >= 2

\* what repeated next() returns from state s until the first absent result
RECURSIVE drain(_)
drain(s) ==
    LET r == next_combination(s)
    IN  IF r[2].some THEN <<r[2].val>> \o drain(r[1]) ELSE <<>>

\* C8: reset() leaves exactly the value new(n, k) builds, digits and flag, also
\* after exhaustion and when k > n; draining afterwards returns what draining
\* a new enumerator returns.
C8_ResetRestoresNew ==
    /\ op = "reset" => self = new(self.n, self.k)
    /\ (reused /\ pure)
           => pulled = SubSeq(drain(new(self.n, self.k)), 1, Len(pulled))
    /\ (reused /\ pure /\ is_done(self))
           => pulled = drain(new(self.n, self.k))

C8_Witness ==
    /\ op = "reset"
    /\ is_done(pre) /\ pre.k <= pre.n /\ pre.k >= 2
    /\ self = new(self.n, self.k)

\* C9: in an exhausted state next_combination_mut changes nothing, is_done()
\* stays true and next() returns absent.
C9_ExhaustedAdvanceIsNoOp ==
    /\ (op = "advance" /\ is_done(pre)) => self = pre
    /\ (op = "next" /\ is_done(pre)) => (ret = None /\ self = pre)
    /\ (op \in {"advance", "next"} /\ is_done(pre)) => is_done(self)

C9_Witness ==
    /\ op = "advance" /\ is_done(pre)
    /\ pre.k >= 2 /\ pre.k <= pre.n
    /\ idle = MaxIdle
    /\ self = pre

\* C10: linear_index() is absent exactly when is_done() holds (k > n included);
\* otherwise its value lies in [0, C(n,k)).
C10_RankAbsentIffDone ==
    /\ (linear_index(self) = None) <=> is_done(self)
    /\ ~is_done(self)
           => /\ linear_index(self).some
              /\ linear_index(self).val \in 0..(Choose(self.n, self.k) - 1)

C10_Witness ==
    /\ is_done(self)
    /\ self.k >= 2 /\ self.k <= self.n
    /\ linear_index(self) = None

\* C11: for every (n, k), combinatorial_index(l) with l outside [0, C(n,k)) returns
\* an explicit absent value: never a digit sequence, and it never aborts.
C11_UnrankOutOfRangeAbsent ==
    \A l \in Choose(self.n, self.k)..(Choose(self.n, self.k) + MaxExcess) :
        combinatorial_index(self, l) = None

\* C12: for k > n, in every state reached from new(n, k): is_done() is true,
\* count_remaining() is 0 and next() returns absent.
C12_EmptyDomainAlwaysDone ==
    self.k > self.n =>
        /\ is_done(self)
        /\ count_remaining(self) = 0
        /\ next_combination(self)[2] = None
        /\ op = "next" => ret = None

C12_Witness ==
    /\ self.k > self.n /\ self.n >= 1
    /\ reused /\ op = "next" /\ ret = None
    /\ is_done(self) /\ count_remaining(self) = 0

\* C13: with k = 0 there is exactly one combination, the empty sequence: fresh,
\* is_done() is false, rank 0, count_remaining() 1; the first next() or advance
\* consumes it; afterwards is_done() is true, rank absent, count_remaining() 0
\* and next() returns absent.
C13_ZeroSizeYieldsOne ==
    self.k = 0 =>
        /\ op \in {"new", "reset"}
               => /\ ~is_done(self)
                  /\ linear_index(self) = Some(0)
                  /\ count_remaining(self) = 1
                  /\ next_combination(self)[2] = Some(<<>>)
        /\ op \in {"advance", "next"}
               => /\ is_done(self)
                  /\ linear_index(self) = None
                  /\ count_remaining(self) = 0
                  /\ next_combination(self)[2] = None
        /\ (op = "next" /\ ~is_done(pre)) => ret = Some(<<>>)
        /\ (op = "next" /\ is_done(pre)) => ret = None
        /\ (pure /\ is_done(self)) => pulled = << <<>> >>

C13_Witness ==
    /\ self.k = 0 /\ self.n >= 1
    /\ op = "next" /\ ret = None
    /\ pulled = << <<>> >>
    /\ is_done(self)

\* C14: for 0 <= k <= n, right after new(n, k) the digits are [0, 1, ..., k-1],
\* is_done() is false, the rank is 0 and count_remaining() is C(n,k).
C14_NewIsFirstCombination ==
    (op = "new" /\ self.k <= self.n) =>
        /\ DOMAIN self.digits = 0..(self.k - 1)
        /\ \A i \in 0..(self.k - 1) : self.digits[i] = i
        /\ ~is_done(self)
        /\ linear_index(self) = Some(0)
        /\ count_remaining(self) = Choose(self.n, self.k)

C14_Witness ==
    /\ op = "new"
    /\ self.k >= 3 /\ self.k < self.n
    /\ self.digits[self.k - 1] = self.k - 1
    /\ count_remaining(self) = Choose(self.n, self.k)

\* C15: for 1 <= k <= n, in every reachable state, exhausted ones included, every
\* stored digit satisfies d_i <= n - k + i.
C15_DigitsBelowPositionMax ==
    (1 <= self.k /\ self.k <= self.n) =>
        \A i \in 0..(self.k - 1) : self.digits[i] <= self.n - self.k + i

\* C15 as the code has it: d_i <= n - k + i while is_done() is false, and
\* d_i <= n - k + i + 1 in every state (an exhausted enumerator holds
\* [n-k+1, ..., n]).
C15_DigitsBelowPositionMaxUntilDone ==
    (1 <= self.k /\ self.k <= self.n) =>
        \A i \in 0..(self.k - 1) :
            /\ ~is_done(self) => self.digits[i] <= self.n - self.k + i
            /\ self.digits[i] <= self.n - self.k + i + 1

C15_Witness ==
    /\ 2 <= self.k /\ self.k < self.n
    /\ is_done(self)
    /\ idle >= 1
    /\ self.digits[self.k - 1] = self.n

\* the last call was next() on a fresh (new or reset) enumerator
FirstPull == op = "next" /\ pre = new(pre.n, pre.k)

\* C18: the first next() on a fresh enumerator returns [0, ..., k-1] without
\* advancing (the stored digits are unchanged by that call); every later call
\* returns a value and then advances; exhaustion is an absent result.
C18_FirstPullDoesNotAdvance ==
    /\ (FirstPull /\ self.k <= self.n)
           => /\ ret.some
              /\ \A i \in 0..(self.k - 1) : ret.val[i] = i
              /\ self.digits = pre.digits
    /\ (op = "next" /\ ~FirstPull /\ ~is_done(pre))
           => /\ ret = Some(pre.digits)
              /\ self.digits # pre.digits
    /\ (op = "next" /\ is_done(pre)) => ret = None

\* C18 as the code has it: every next() in a non-exhausted state, the first one
\* included, returns the digits held before the call and then advances them;
\* the first one returns [0, ..., k-1]; exhaustion is an absent result.
C18_EveryPullReturnsThenAdvances ==
    /\ (op = "next" /\ ~is_done(pre))
           => /\ ret = Some(pre.digits)
              /\ ~self.initial
              /\ self.k >= 1 => LexLess(pre.digits, self.digits, self.k)
    /\ (FirstPull /\ self.k <= self.n)
           => /\ ret.some
              /\ \A i \in 0..(self.k - 1) : ret.val[i] = i
    /\ (op = "next" /\ is_done(pre)) => ret = None

C18_Witness ==
    /\ FirstPull
    /\ self.k >= 2 /\ self.k < self.n
    /\ ret = Some(pre.digits)
    /\ self.digits # pre.digits

\* C19: the first pull from Fresh leaves the enumerator Exhausted (is_done()
\* true) if k > n and Active (is_done() false) if k <= n; afterwards an advance
\* leads Active to Active while more remain and to Exhausted when none remain.
C19_FirstPullLeavesActive ==
    /\ FirstPull => (is_done(self) <=> self.k > self.n)
    /\ (op \in {"advance", "next"} /\ ~pre.initial /\ ~is_done(pre))
           => (is_done(self) <=> cnt = Choose(self.n, self.k))

\* C19 as the code has it: the first pull from Fresh leaves the enumerator
\* Exhausted if k > n or C(n,k) = 1 (k = 0 or k = n) and Active if C(n,k) >= 2;
\* every advance from a non-exhausted state leads to Exhausted exactly when it
\* is the C(n,k)-th since new/reset.
C19_FirstPullLeavesActiveIfMoreRemain ==
    /\ FirstPull
           => /\ is_done(self) <=> (self.k > self.n \/ Choose(self.n, self.k) = 1)
              /\ is_done(self) <=> (self.k > self.n \/ self.k = 0 \/ self.k = self.n)
    /\ (op \in {"advance", "next"} /\ ~is_done(pre))
           => (is_done(self) <=> cnt = Choose(self.n, self.k))

C19_Witness ==
    /\ FirstPull
    /\ self.k = self.n /\ self.n >= 2
    /\ ret.some
    /\ is_done(self)

\* the largest index j with d_j < n - k + j
Pivot(d, n, k) ==
    CHOOSE j \in 0..(k - 1) :
        /\ d[j] < n - k + j
        /\ \A i \in (j + 1)..(k - 1) : ~(d[i] < n - k + i)

\* C20: an advance from non-exhausted digits d that are not the last combination
\* gives d' with d'_i = d_i for i < j, d'_j = d_j + 1 and d'_i = d'_j + (i - j)
\* for i > j, where j is the largest index with d_j < n - k + j.
C20_SuccessorDigits ==
    (op \in {"advance", "next"} /\ ~is_done(pre) /\ ~is_done(self)) =>
        LET j == Pivot(pre.digits, pre.n, pre.k)
        IN  /\ \E i \in 0..(pre.k - 1) : pre.digits[i] < pre.n - pre.k + i
            /\ DOMAIN self.digits = DOMAIN pre.digits
            /\ \A i \in 0..(self.k - 1) :
                   self.digits[i] = IF i < j THEN pre.digits[i]
                                    ELSE pre.digits[j] + 1 + (i - j)

C20_Witness ==
    /\ op = "advance" /\ ~is_done(pre) /\ ~is_done(self)
    /\ self.k >= 3
    /\ Pivot(pre.digits, pre.n, pre.k) = 1
    /\ pre.digits[2] > pre.digits[1] + 1

(***************************************************************************)
(* Pascal's triangle in u64, the reference for binomial                    *)
(***************************************************************************)
\* a + b for two u64, and what was lost above bit 63
u64_add(a, b) ==
    LET t1 == a[1] + b[1]
        t2 == a[2] + b[2] + (t1 \div Limb)
        t3 == a[3] + b[3] + (t2 \div Limb)
        t4 == a[4] + b[4] + (t3 \div Limb)
    IN  [val |-> <<t1 % Limb, t2 % Limb, t3 % Limb, t4 % Limb>>,
         lost |-> t4 \div Limb]

\* row n of the triangle from row n - 1: C(n,0) = C(n,n) = 1 and
\* C(n,j) = C(n-1,j-1) + C(n-1,j)
RECURSIVE PascalRow(_, _, _)
PascalRow(above, n, j) ==
    IF j = 0
    THEN (0 :> u64(1))
    ELSE PascalRow(above, n, j - 1)
             @@ (j :> IF j = n THEN u64(1) ELSE u64_add(above[j - 1], above[j]).val)

RECURSIVE PascalRows(_)
PascalRows(n) ==
    IF n = 0
    THEN (0 :> (0 :> u64(1)))
    ELSE LET t == PascalRows(n - 1)
         IN  t @@ (n :> PascalRow(t[n - 1], n, n))

PascalTriangle == PascalRows(MaxBinomN)

Pascal(n, k) == IF k > n THEN u64(0) ELSE PascalTriangle[n][k]

\* C16: for every n <= 62 and every k, binomial(n, k) returns C(n,k) as defined
\* by Pascal's rule, and 0 whenever k > n.
C16_BinomialIsPascal ==
    call.pc = "done" =>
        /\ call.ret = Pascal(call.n, call.k)
        /\ call.k > call.n => call.ret = u64(0)
        /\ call.k = 0 => call.ret = u64(1)
        /\ (1 <= call.k /\ call.k <= call.n) =>
               LET s == u64_add(Pascal(call.n - 1, call.k - 1), Pascal(call.n - 1, call.k))
               IN  s.lost = 0 /\ call.ret = s.val

\* binomial(62, 31) has returned 465428353255261088
C16_Witness ==
    /\ call.pc = "done"
    /\ call.n = MaxBinomN
    /\ 2 * call.k = MaxBinomN
    /\ call.ret = <<50080, 4140, 34975, 1653>>

\* C17: for every n <= 62 and every k, no intermediate product m * p computed
\* inside binomial exceeds 2^64 - 1, so the arithmetic never wraps and the
\* returned value is exact.
C17_ProductFitsU64 ==
    /\ ~call.wrapped
    /\ (call.pc = "loop" /\ call.i < call.kk) => u64_mul(call.m + 1, call.p).lost = 0
    /\ call.pc = "loop" => call.p = Pascal(call.m, call.i)
    /\ call.pc = "done" => call.ret = Pascal(call.n, call.k)

\* the last product of binomial(62, 31), 62 * C(61,30), is above 2^63 and fits
C17_Witness ==
    /\ call.pc = "loop"
    /\ call.n = MaxBinomN
    /\ call.m + 1 = MaxBinomN
    /\ call.i + 1 = call.kk
    /\ LET prod == u64_mul(call.m + 1, call.p)
       IN  prod.lost = 0 /\ 2 * prod.val[4] >= Limb

\* C21: for 1 <= k <= n, after C(n,k) or more advances from a fresh or reset
\* enumerator the digits are exactly [n-k+1, ..., n] and count_remaining() is 0.
C21_ExhaustedDigits ==
    (1 <= self.k /\ self.k <= self.n /\ cnt >= Choose(self.n, self.k)) =>
        /\ DOMAIN self.digits = 0..(self.k - 1)
        /\ \A i \in 0..(self.k - 1) : self.digits[i] = self.n - self.k + 1 + i
        /\ count_remaining(self) = 0

C21_Witness ==
    /\ 2 <= self.k /\ self.k < self.n
    /\ reused
    /\ cnt > Choose(self.n, self.k)
    /\ self.digits[0] = self.n - self.k + 1
    /\ self.digits[self.k - 1] = self.n

\* C22: for 1 <= k <= n and l + 1 < C(n,k), an enumerator whose digits are set
\* to unrank(l) holds unrank(l + 1) after one advance; so an enumerator seeded
\* at rank a and advanced through [a, b) visits unrank(a), ..., unrank(b - 1),
\* and since unrank maps [0, C(n,k)) one-to-one onto the k-combinations,
\* enumerators over ranges that partition [0, C(n,k)) visit each exactly once.
C22_SeededAdvanceFollowsRank ==
    /\ (op = "walk" /\ cnt < Choose(self.n, self.k))
           => /\ combinatorial_index(pre, cnt - 1) = Some(pre.digits)
              /\ combinatorial_index(self, cnt) = Some(self.digits)
    /\ op = "walk" => (is_done(self) <=> cnt = Choose(self.n, self.k))
    /\ op \in {"seed", "walk"}
           => \A i \in 1..Len(pulled) :
                  combinatorial_index(self, cnt - Len(pulled) + i - 1) = Some(pulled[i])
    /\ op = "seed"
           => LET all == {combinatorial_index(self, l) : l \in 0..(Choose(self.n, self.k) - 1)}
              IN  /\ Cardinality(all) = Choose(self.n, self.k)
                  /\ all = {Some(c) : c \in Range(combinations(self.n, self.k))}

C22_Witness ==
    /\ op = "walk"
    /\ 2 <= self.k /\ self.k < self.n
    /\ Len(pulled) >= 2
    /\ cnt - Len(pulled) >= 3
    /\ cnt < Choose(self.n, self.k)
    /\ pre.digits[0] # self.digits[0]
    /\ combinatorial_index(self, cnt) = Some(self.digits)

\* C23: in binomial(n, k) with k <= n, at every loop iteration i = 1..min(k, n-k)
\* the product m * p is exactly divisible by i, so p = m * p / i never truncates.
C23_DivisionIsExact ==
    call.k <= call.n =>
        /\ call.exact
        /\ (call.pc = "loop" /\ call.i < call.kk)
               => LET prod == u64_mul(call.m + 1, call.p).val
                  IN  /\ u64_rem(prod, call.i + 1) = 0
                      /\ u64_mul(call.i + 1, u64_div(prod, call.i + 1)).val = prod
        /\ call.pc = "loop" => call.kk = (IF call.k < call.n - call.k
                                          THEN call.k ELSE call.n - call.k)

\* binomial(62, 31) is about to divide 62 * C(61,30) by 31
C23_Witness ==
    /\ call.pc = "loop"
    /\ call.n = MaxBinomN
    /\ call.i + 1 = call.kk
    /\ call.i >= 30
    /\ call.exact
    /\ u64_rem(u64_mul(call.m + 1, call.p).val, call.i + 1) = 0

\* C24: in binomial(n, k) with k <= n, no numerator m * p formed at any loop
\* iteration is larger than the final value returned by the call.
C24_NumeratorBelowResult ==
    (call.pc = "done" /\ call.k <= call.n) => u64_le(call.peak, call.ret)

\* C24 as the code has it: the numerator formed at iteration i is i times the
\* value p takes in that iteration, p never decreases, so the largest numerator
\* is min(k, n-k) times the returned value: at most the returned value when
\* min(k, n-k) <= 1 and larger than it when min(k, n-k) >= 2.
C24_NumeratorIsIterationTimesQuotient ==
    call.k <= call.n =>
        /\ (call.pc = "loop" /\ call.i < call.kk)
               => LET prod == u64_mul(call.m + 1, call.p).val
                      q    == u64_div(prod, call.i + 1)
                  IN  /\ u64_mul(call.i + 1, q) = [val |-> prod, lost |-> 0]
                      /\ u64_le(call.p, q)
                      /\ u64_le(call.peak, prod)
        /\ call.pc = "loop" => call.peak = u64_mul(call.i, call.p).val
        /\ call.pc = "done"
               => /\ call.peak = u64_mul(call.kk, call.ret).val
                  /\ u64_mul(call.kk, call.ret).lost = 0
                  /\ u64_le(call.peak, call.ret) <=> call.kk <= 1

\* binomial(4, 2) has returned 6 after forming the numerator 4 * 3 = 12
C24_Witness ==
    /\ call.pc = "done"
    /\ call.n = 4 /\ call.k = 2
    /\ call.ret = u64(6)
    /\ call.peak = u64(12)
    /\ ~u64_le(call.peak, call.ret)

\* C25: for 0 <= k <= n and l < C(n,k), combinatorial_index(l) returns the same
\* result in every reachable state of an enumerator with that (n, k), fresh,
\* mid-sequence or exhausted (being a function of the state, it leaves the
\* digits and flags as they are).
C25_UnrankStateIndependent ==
    self.k <= self.n =>
        \A l \in 0..(Choose(self.n, self.k) - 1) :
            /\ combinatorial_index(self, l) = combinatorial_index(new(self.n, self.k), l)
            /\ combinatorial_index(self, l).some

\* C25, where the code does satisfy it: with k >= 1 the result depends on
\* n, k and l only.
C25_UnrankStateIndependentNonEmpty ==
    (1 <= self.k /\ self.k <= self.n) =>
        \A l \in 0..(Choose(self.n, self.k) - 1) :
            /\ combinatorial_index(self, l) = combinatorial_index(new(self.n, self.k), l)
            /\ combinatorial_index(self, l).some

\* C26: from every reachable non-exhausted state, repeated advances reach an
\* exhausted state: is_done() becomes true after exactly count_remaining()
\* further advances and not before.
C26_StepsToExhaustion ==
    /\ (self.k <= self.n /\ ~is_done(self))
           => /\ count_remaining(self) >= 1
              /\ count_remaining(self) = Choose(self.n, self.k) - cnt
    /\ self.k <= self.n => (is_done(self) <=> cnt >= Choose(self.n, self.k))
    /\ (op = "advance" /\ ~is_done(pre))
           => /\ count_remaining(self) = count_remaining(pre) - 1
              /\ is_done(self) <=> count_remaining(pre) = 1

C26_AdvanceReachesExhaustion ==
    /\ []C26_StepsToExhaustion
    /\ \A r \in 1..Choose(MaxN, MaxN \div 2) :
           (~is_done(self) /\ count_remaining(self) = r)
               ~> (is_done(self) /\ op = "advance" /\ count_remaining(pre) = 1)

C26_Witness ==
    /\ op = "advance"
    /\ 2 <= self.k /\ self.k < self.n
    /\ ~is_done(pre) /\ count_remaining(pre) = 1
    /\ is_done(self)
    /\ cnt = Choose(self.n, self.k)
    /\ cnt >= 10

(***************************************************************************)
(* The unsigned arithmetic and the indexing of next_combination_mut,       *)
(* count_remaining and linear_index: each operator follows the control     *)
(* flow of its method and is true when every index is inside digits, every *)
(* subtraction has a non-negative result and every digit written is <= n.  *)
(***************************************************************************)
InBounds(d, j) == j \in DOMAIN d

\* the first while loop of next_combination_mut, entered after `digits[j] += 1`
RECURSIVE carry_in_range(_, _, _, _)
carry_in_range(d, j, len, n) ==
    /\ InBounds(d, j)
    /\ d[j] <= n
    /\ (d[j] = len + j /\ j # 0)
           => /\ j - 1 >= 0
              /\ InBounds(d, j - 1)
              /\ carry_in_range([d EXCEPT ![j - 1] = @ + 1], j - 1, len, n)

\* the second while loop of next_combination_mut
RECURSIVE refill_in_range(_, _, _, _)
refill_in_range(d, j, k, n) ==
    j < k =>
        /\ InBounds(d, j) /\ InBounds(d, j - 1)
        /\ d[j - 1] + 1 <= n
        /\ refill_in_range([d EXCEPT ![j] = d[j - 1] + 1], j + 1, k, n)

next_combination_mut_in_range(s) ==
    LET s1 == [s EXCEPT !.initial = FALSE]
    IN  is_done(s1)
        \/ LET j   == s1.k - 1
               len == s1.n - s1.k + 1
               d   == [s1.digits EXCEPT ![j] = @ + 1]
               c   == carry(d, j, len)
           IN  /\ j >= 0
               /\ s1.n - s1.k >= 0
               /\ InBounds(s1.digits, j)
               /\ carry_in_range(d, j, len, s1.n)
               /\ refill_in_range(c[1], c[2] + 1, s1.k, s1.n)

\* the while loop of count_remaining and its final expression
RECURSIVE count_remaining_loop_in_range(_, _, _, _)
count_remaining_loop_in_range(s, j, i, d_i) ==
    IF i < s.k - 1
    THEN /\ j - 1 >= 0
         /\ InBounds(s.digits, j - 1)
         /\ LET d_i_1 == s.digits[j - 1]
            IN  IF d_i_1 # d_i
                THEN /\ s.n - d_i >= 0
                     /\ count_remaining_loop_in_range(s, j - 1, i + 1, d_i_1 + 1)
                ELSE count_remaining_loop_in_range(s, j - 1, i + 1, d_i_1)
    ELSE s.n - d_i >= 0

count_remaining_in_range(s) ==
    IF s.k = 0 \/ s.k > s.n
    THEN TRUE
    ELSE IF s.k = 1
    THEN InBounds(s.digits, 0) /\ s.n - s.digits[0] >= 0
    ELSE /\ InBounds(s.digits, s.k - 1)
         /\ count_remaining_loop_in_range(s, s.k - 1, 0, s.digits[s.k - 1])

\* the while loop of linear_index and its final expression
RECURSIVE linear_index_loop_in_range(_, _, _, _)
linear_index_loop_in_range(s, j, i, d_i) ==
    IF i < s.k - 1
    THEN /\ j - 1 >= 0
         /\ InBounds(s.digits, j - 1)
         /\ LET d_i_1 == s.digits[j - 1]
            IN  /\ d_i_1 # d_i
                       => /\ (s.n - 1) - d_i_1 >= 0
                          /\ s.n - d_i >= 0
                          /\ binomial((s.n - 1) - d_i_1, i + 1)
                                 - binomial(s.n - d_i, i + 1) >= 0
                /\ linear_index_loop_in_range(s, j - 1, i + 1, d_i_1)
    ELSE /\ InBounds(s.digits, 0)
         /\ s.n - s.digits[0] >= 0
         /\ binomial(s.n, s.k) - binomial(s.n - s.digits[0], s.k) >= 0

linear_index_in_range(s) ==
    IF s.k = 0 \/ s.k > s.n
    THEN TRUE
    ELSE /\ InBounds(s.digits, 0)
         /\ s.n - s.k >= 0
         /\ IF s.digits[0] > s.n - s.k \/ s.k = 1
            THEN TRUE
            ELSE /\ InBounds(s.digits, s.k - 1)
                 /\ s.n - 1 >= 0
                 /\ linear_index_loop_in_range(s, s.k - 1, 0, s.digits[s.k - 1])

\* C27: in every reachable state with k <= n, exhausted states included,
\* advance, linear_index and count_remaining neither overflow nor underflow
\* nor index digits out of bounds: no digit exceeds n, and every n - d,
\* (n-1) - d and difference of binomial terms is non-negative.
C27_ArithmeticInRange ==
    self.k <= self.n =>
        /\ DOMAIN self.digits = 0..(self.k - 1)
        /\ \A i \in DOMAIN self.digits : 0 <= self.digits[i] /\ self.digits[i] <= self.n
        /\ next_combination_mut_in_range(self)
        /\ count_remaining_in_range(self)
        /\ linear_index_in_range(self)
        /\ count_remaining(self) >= 0
        /\ linear_index(self).some => linear_index(self).val >= 0

C27_Witness ==
    /\ 2 <= self.k /\ self.k < self.n
    /\ op = "advance" /\ idle >= 1
    /\ is_done(self)
    /\ self.digits[self.k - 1] = self.n
    /\ count_remaining_in_range(self)
    /\ next_combination_mut_in_range(self)

\* the number of ways to mark exactly k_damaged of the Unknown slots Damaged,
\* the other Unknown slots Operational, such that Row::is_feasible() holds
FeasibleMarkings(j) ==
    LET n == Len(j.unknowns)
    IN  Cardinality({c \in Range(combinations(n, j.k_damaged)) :
            is_feasible([j.row EXCEPT !.left = marked(j.row.left, j.unknowns, c)])})

\* C28: count_arrangements evaluates the feasibility predicate exactly once for
\* every k_damaged-combination of the n_unknown unknown slots, C(n_unknown,
\* k_damaged) times, for every 0 <= k_damaged <= n_unknown, k_damaged = 0 included.
C28_EvaluatesEveryCombinationOnce ==
    job.pc = "done" =>
        LET n == Len(job.unknowns)
        IN  /\ Len(job.evals) = Choose(n, job.k_damaged)
            /\ \A a, b \in 1..Len(job.evals) : a # b => job.evals[a] # job.evals[b]
            /\ Range(job.evals) = Range(combinations(n, job.k_damaged))

\* C28, where the code does satisfy it: with k_damaged >= 1.
C28_EvaluatesEveryCombinationOnceNonEmpty ==
    (job.pc = "done" /\ job.k_damaged >= 1) =>
        LET n == Len(job.unknowns)
        IN  /\ Len(job.evals) = Choose(n, job.k_damaged)
            /\ \A a, b \in 1..Len(job.evals) : a # b => job.evals[a] # job.evals[b]
            /\ Range(job.evals) = Range(combinations(n, job.k_damaged))

\* C29: count_arrangements returns the number of ways to mark exactly k_damaged
\* of the row's Unknown slots as Damaged (all other Unknown slots Operational)
\* such that Row::is_feasible() holds, 0 when no such marking is feasible.
C29_ReturnsFeasibleCount ==
    job.pc = "done" => job.ret = FeasibleMarkings(job)

\* C29, where the code does satisfy it: when some marking is feasible and
\* k_damaged >= 1, or when k_damaged = 0 and the one marking is feasible.
C29_ReturnsFeasibleCountIfPositive ==
    (job.pc = "done" /\ FeasibleMarkings(job) >= 1) => job.ret = FeasibleMarkings(job)

\* C30: for 0 <= k <= n the results of repeated next() calls on day12.rs's
\* Combinations are the same, absent results included, as those of
\* combinations.rs's Combinations.
C30_TwinResultsAgree ==
    /\ op = "next" => twin.ret = ret
    /\ twin.comb.n = self.n /\ twin.comb.k = self.k
    /\ (op = "next" /\ is_done(pre)) => (ret = None /\ twin.ret = None)

C30_Witness ==
    /\ op = "next"
    /\ 2 <= self.k /\ self.k < self.n
    /\ is_done(self) /\ idle >= 1
    /\ Len(pulled) = Choose(self.n, self.k)
    /\ twin.ret = None
    /\ ~twin.comb.initial
    /\ day12_is_done(twin.comb)

====
